---- MODULE Spec2Model ----
(***************************************************************************)
(* A model of src/app.py: the task record store (task_status), the         *)
(* active-handle index (active_processes), the worker thread of a          *)
(* YTDLPDownloader (run_download), the external yt-dlp process it          *)
(* supervises, and the request handlers that mutate the store (submit,     *)
(* cancel, remove, list with retention sweep, clear).                      *)
(*                                                                         *)
(* Granularity.  Flask serves every request on its own thread              *)
(* (threaded=True) and every download runs on a daemon thread, so the      *)
(* steps of a worker interleave with the handlers.  A worker step is a     *)
(* stretch of run_download between two points where the thread blocks      *)
(* (readline, wait) or where it has read shared state it acts on later     *)
(* (the test of self.cancelled at line 778 and the write that follows).    *)
(* The cancel route is two steps, split at the wait inside                 *)
(* cancel_download; remove, sweep and clear are one step each.             *)
(*                                                                         *)
(* Persistence.  save_tasks writes only the durable file, its temp file    *)
(* and _last_save_time, and no worker or handler reads them.  In the       *)
(* specifications of the store (Spec, SpecDup, SpecLog, SpecSweep,         *)
(* SpecBenign, SpecCap, SpecSubmit) the calls are named in comments where  *)
(* they occur and the files stay as they are.  SpecPersist models          *)
(* save_tasks step by step for threads that call it while the store        *)
(* changes; SpecLoad models load_tasks at startup; SpecRound a snapshot    *)
(* followed by a restart and a load.                                       *)
(*                                                                         *)
(* Processes.  terminate() may or may not end a process within the 5 s the *)
(* code waits; kill() ends it, but not before kill() returns.              *)
(***************************************************************************)
EXTENDS Integers, Sequences, FiniteSets, TLC

\* ------------------------------------------------------------------ bounds
\* Lines a process emits before its stream closes, in Spec.
MaxLines == 2
\* Lines the chatty process of SpecLog emits: enough to pass the log cap.
LogLines == 198
\* The clock stops advancing here (hours).
MaxClock == 25
\* How far above MAX_TASKS the Stores drawn for capacity enforcement go.
CapOver == 2
\* The most terminal records in a Store drawn for capacity enforcement.
CapTerminal == 3
\* The last second of the wall clock, in SpecPersist.
MaxSecs == 2

\* ------------------------------------------------------- program constants
MAX_TASKS == 50
TASK_RETENTION_HOURS == 24
OUTPUT_CAP == 200
\* Popen.returncode of a process ended by terminate(): -SIGTERM.
SIGTERM_CODE == -15
\* The exit code of a process ended by Popen.kill().
SIGKILL_CODE == -9
\* The throttle window of save_tasks, in seconds.
THROTTLE_S == 1

\* The downloader objects that submissions create, in creation order.
WorkerOrder == <<"w1", "w2">>
Workers == {WorkerOrder[i] : i \in 1..Len(WorkerOrder)}
\* The client ids requests carry.
Ids == {"a", "b"}
\* The threads that call save_tasks, in SpecPersist.
Savers == {"s1", "s2"}

VARIABLES
    task_status,      \* the Store: a function from the ids present to records
    active_processes, \* the active-handle index: ids present -> downloader
    now,              \* time.time(), in hours
    pc,               \* per downloader: where its run_download thread is
    cid,              \* per downloader: self.client_id
    cancelled,        \* per downloader: self.cancelled
    proc,             \* per downloader: self.process: none | running |
                      \*   killed (kill() was sent, it has not ended) | exited
    rc,               \* per downloader: exit code of its process
    nread,            \* per downloader: non-empty lines taken from the stream
    output_buffer,    \* per downloader: local output_buffer
    critical,         \* per downloader: local critical_error_found
    downloaded_file,  \* per downloader: self.downloaded_file is set
    raised,           \* per downloader: an exception left run_download
    creq,             \* per id: cancel request waiting inside cancel_download
    disk,             \* the durable file tasks.json
    tmp,              \* the temp file tasks.json.tmp
    backup,           \* the backup file tasks.json.backup.<time>
    last_save_time,   \* _last_save_time, in seconds
    save_lock,        \* _save_lock: the thread that holds it, or free
    secs,             \* time.time() as save_tasks reads it, in seconds
    saver,            \* per calling thread: where its save_tasks call is
    phase,            \* boot before load_tasks has run, up afterwards
    resp              \* the status code of the last response of a submit
                      \*   route, 0 before the first

\* The state of the store and of the downloads.
mvars == <<task_status, active_processes, now, pc, cid, cancelled, proc, rc,
           nread, output_buffer, critical, downloaded_file, raised, creq>>
\* The state of persistence.
pvars == <<disk, tmp, backup, last_save_time, save_lock, secs, saver, phase>>

vars == <<task_status, active_processes, now, pc, cid, cancelled, proc, rc,
          nread, output_buffer, critical, downloaded_file, raised, creq,
          disk, tmp, backup, last_save_time, save_lock, secs, saver, phase,
          resp>>

\* ---------------------------------------------------------------- statuses
ErrorStatuses ==
    {"error: Exit code 0", "error: Exit code 1", "error: Exit code -15",
     "error: timeout", "error: yt-dlp not found", "error: PermissionError"}

\* status in ['finished', 'cancelled'] or status.startswith('error')
IsTerminal(s) == s \in {"finished", "cancelled"} \/ s \in ErrorStatuses

\* f'error: Exit code {return_code}'
ExitStatus(code) ==
    IF code = 0 THEN "error: Exit code 0"
    ELSE IF code = 1 THEN "error: Exit code 1"
    ELSE "error: Exit code -15"

\* ------------------------------------------------------------ dictionaries
\* d[k] = v
Put(d, k, v) == [i \in DOMAIN d \cup {k} |-> IF i = k THEN v ELSE d[i]]
\* del d[k] for every k of ks
Del(d, ks) == [i \in DOMAIN d \ ks |-> d[i]]
EmptyDict == [i \in {} |-> 0]

\* ------------------------------------------------------------- output log
\* One entry of a task's output list: what wrote it and, for a line of the
\* process, its position in the stream.
Entry(tag, n) == [tag |-> tag, n |-> n]

\* output[-200:]
KeepLast(out, cap) ==
    IF Len(out) > cap THEN SubSeq(out, Len(out) - cap + 1, Len(out)) ELSE out

\* LoopFlush putting the buffered lines before the lines already stored.
LoopFlushPrepending(out, buf) == KeepLast(buf \o out, OUTPUT_CAP)

\* The periodic flush of the read loop: extend, then keep the last 200.
LoopFlush(out, buf) == KeepLast(out \o buf, OUTPUT_CAP)

\* The flush after the loop and every single append: no trimming.
Extend(out, buf) == out \o buf

\* ------------------------------------------------------------------- lines
\* A line of process output, by the features the classifier tests:
\*   dl       '[download]' in line
\*   pct      the number before the first '%', or -1 when there is none
\*   dest     'Destination:' followed by a path with a directory
\*   benign   a non_critical_patterns entry occurs in the line
\*   crit     a critical_errors entry occurs in the line
\*   blank    line.strip() is empty
Line(dl, pct, dest, benign, crit, blank) ==
    [dl |-> dl, pct |-> pct, dest |-> dest, benign |-> benign, crit |-> crit,
     blank |-> blank]

\* "[download]  10.0% of 1.00MiB at 1.00MiB/s ETA 00:09" and the like
DlLine(p) == Line(TRUE, p, FALSE, FALSE, FALSE, FALSE)
\* "[download] Destination: /downloads/Title/Title.mkv"
DestLine == Line(TRUE, -1, TRUE, FALSE, FALSE, FALSE)
\* "ERROR: unable to download video data: HTTP Error 403"
CritLine == Line(FALSE, -1, FALSE, FALSE, TRUE, FALSE)
\* "[info] Writing video subtitles"
PlainLine == Line(FALSE, -1, FALSE, FALSE, FALSE, FALSE)
\* "\n"
BlankLine == Line(FALSE, -1, FALSE, FALSE, FALSE, TRUE)

Lines == {DlLine(50), DlLine(10), DestLine, CritLine, PlainLine, BlankLine}

\* Lines in which a non_critical_patterns entry occurs:
\* "WARNING: Cannot write internet shortcut file"
BenignLine == Line(FALSE, -1, FALSE, TRUE, FALSE, FALSE)
\* "ERROR: unable to download video data: cannot write internet shortcut"
BenignCritLine == Line(FALSE, -1, FALSE, TRUE, TRUE, FALSE)
\* "[download] Destination: /downloads/50% write url link/50% write url link.mkv"
BenignDestLine == Line(TRUE, 50, TRUE, TRUE, FALSE, FALSE)

BenignLines == {BenignLine, BenignCritLine, BenignDestLine}

\* parse_progress, the part that writes task['progress']: the new value.
parse_progress(progress, line) ==
    IF line.dl /\ line.pct >= 0 THEN line.pct ELSE progress

\* handle_errors: TRUE when the line is critical.
handle_errors(line) ==
    IF line.benign THEN FALSE
    ELSE IF line.crit THEN TRUE
    ELSE FALSE

\* ------------------------------------------------------------------- store
\* The record run_download creates at lines 689-698.
NewTask(t) ==
    [status |-> "initializing",
     output |-> <<Entry("init", 0)>>,
     progress |-> 0,
     created_at |-> t]

Has(id) == id \in DOMAIN task_status

\* get_status: the response code of GET /status/<id>
get_status(id) == IF id \in DOMAIN task_status THEN 200 ELSE 404

TerminalIds(ts) == {id \in DOMAIN ts : IsTerminal(ts[id].status)}

\* limit_task_count evicting at most one record, the oldest terminal one.
limit_task_count_one(ts) ==
    IF Cardinality(DOMAIN ts) > MAX_TASKS /\ TerminalIds(ts) # {}
    THEN Del(ts, {CHOOSE v \in TerminalIds(ts) :
                     \A u \in TerminalIds(ts) :
                        ts[v].created_at <= ts[u].created_at})
    ELSE ts

\* limit_task_count taking the newest terminal records instead of the oldest.
limit_task_count_newest(ts) ==
    IF Cardinality(DOMAIN ts) > MAX_TASKS
    THEN LET fin == TerminalIds(ts)
             over == Cardinality(DOMAIN ts) - MAX_TASKS
             k == IF over < Cardinality(fin) THEN over ELSE Cardinality(fin)
             victims == CHOOSE V \in SUBSET fin :
                          /\ Cardinality(V) = k
                          /\ \A v \in V : \A u \in fin \ V :
                                ts[v].created_at >= ts[u].created_at
         IN Del(ts, victims)
    ELSE ts

\* limit_task_count: over the cap, the to_remove oldest terminal records go
\* (by created_at; equal created_at are ordered by the dictionary in the
\* code, by the choice below here).
limit_task_count(ts) ==
    IF Cardinality(DOMAIN ts) > MAX_TASKS
    THEN LET to_remove == Cardinality(DOMAIN ts) - MAX_TASKS
             fin == TerminalIds(ts)
             k == IF to_remove < Cardinality(fin) THEN to_remove
                  ELSE Cardinality(fin)
             victims == CHOOSE V \in SUBSET fin :
                          /\ Cardinality(V) = k
                          /\ \A v \in V : \A u \in fin \ V :
                                ts[v].created_at <= ts[u].created_at
         IN Del(ts, victims)
    ELSE ts

\* ------------------------------------------------------------------- files
\* A file: absent, or a document.  The kinds of document: json, a JSON
\* object of records (doc); notobject, JSON that is not an object; badjson,
\* text that is not JSON; badutf8, bytes that are not UTF-8 text; partial,
\* a document whose writing has begun and not ended.
File(kind, doc) == [kind |-> kind, doc |-> doc]
NoFile == File("absent", EmptyDict)
\* The temp file also says which call opened it.
TmpFile(kind, doc, by) == [kind |-> kind, doc |-> doc, by |-> by]
NoTmp == TmpFile("absent", EmptyDict, "none")

\* A client id is whatever JSON value the request carried (line 913): a
\* string, or for instance the number 5, written int:5 here.
IntIds == {"int:5"}
\* json.dump writes a key that is a number as its decimal text.
json_key(id) == IF id \in IntIds THEN "5" ELSE id

\* json.dump(task_status, f) at line 298: an object with one member per
\* record, under the key text of its id.  Of two members with the same key
\* json.load keeps the later one in the order of the dictionary, which is
\* not modelled: the choice below stands for it.
json_dump(ts) ==
    File("json",
         [k \in {json_key(id) : id \in DOMAIN ts} |->
             ts[CHOOSE id \in DOMAIN ts : json_key(id) = k]])
\* json.load(f) at line 238: a dictionary keyed by the member names.
json_load(file) == file.doc

\* A thread that has not called save_tasks.
IdleSaver ==
    [pc |-> "idle", force |-> FALSE, t |-> 0, ret |-> FALSE, caller |-> "none"]

\* ------------------------------------------------------------------- Init
\* The server is up, started without a durable file, a second after the
\* time _last_save_time is initialised to.
InitFiles ==
    /\ disk = NoFile
    /\ tmp = NoTmp
    /\ backup = NoFile
    /\ last_save_time = 0
    /\ save_lock = "free"
    /\ secs = THROTTLE_S
    /\ saver = [s \in Savers |-> IdleSaver]
    /\ phase = "up"

Init ==
    /\ InitFiles
    /\ task_status = EmptyDict
    /\ active_processes = EmptyDict
    /\ now = 0
    /\ pc = [w \in Workers |-> "idle"]
    /\ cid = [w \in Workers |-> "a"]
    /\ cancelled = [w \in Workers |-> FALSE]
    /\ proc = [w \in Workers |-> "none"]
    /\ rc = [w \in Workers |-> 0]
    /\ nread = [w \in Workers |-> 0]
    /\ output_buffer = [w \in Workers |-> <<>>]
    /\ critical = [w \in Workers |-> FALSE]
    /\ downloaded_file = [w \in Workers |-> FALSE]
    /\ raised = [w \in Workers |-> FALSE]
    /\ creq = [id \in Ids |-> "none"]
    /\ resp = 0

\* ----------------------------------------------------- external process
\* Popen.terminate() / kill() followed by wait(): the process is gone.
\* S is the set of downloaders whose cancel_download runs.
cancel_flag(S) == [w \in Workers |-> cancelled[w] \/ w \in S]
cancel_proc(S) ==
    [w \in Workers |-> IF w \in S /\ proc[w] = "running" THEN "exited" ELSE proc[w]]
cancel_rc(S) ==
    [w \in Workers |-> IF w \in S /\ proc[w] = "running" THEN SIGTERM_CODE ELSE rc[w]]

\* The process ends by itself with an exit code, closing its stream.
ProcExit(w, code) ==
    /\ UNCHANGED <<pvars, resp>>
    /\ proc[w] = "running"
    /\ proc' = [proc EXCEPT ![w] = "exited"]
    /\ rc' = [rc EXCEPT ![w] = code]
    /\ UNCHANGED <<task_status, active_processes, now, pc, cid, cancelled,
                   nread, output_buffer, critical, downloaded_file, raised, creq>>

\* A process that was sent kill() ends.
ProcDie(w) ==
    /\ UNCHANGED <<pvars, resp>>
    /\ proc[w] = "killed"
    /\ proc' = [proc EXCEPT ![w] = "exited"]
    /\ rc' = [rc EXCEPT ![w] = SIGKILL_CODE]
    /\ UNCHANGED <<task_status, active_processes, now, pc, cid, cancelled,
                   nread, output_buffer, critical, downloaded_file, raised, creq>>

\* ------------------------------------------------------------ run_download
\* An access task_status[self.client_id] of a missing record raises
\* KeyError; the handler at lines 819-823 starts with the same access and
\* raises it again, so the exception leaves run_download after the finally
\* block.
Escapes(w) ==
    /\ raised' = [raised EXCEPT ![w] = TRUE]
    /\ pc' = [pc EXCEPT ![w] = "cleanup"]

\* Handled creating the record when it is missing.
HandledUpserting(w, status, tag) ==
    /\ task_status' =
          IF Has(cid[w])
          THEN [task_status EXCEPT
                   ![cid[w]].status = status,
                   ![cid[w]].output = Extend(@, <<Entry(tag, 0)>>)]
          ELSE Put(task_status, cid[w],
                   [status |-> status, output |-> <<Entry(tag, 0)>>,
                    progress |-> 0, created_at |-> now])
    /\ pc' = [pc EXCEPT ![w] = "cleanup"]
    /\ UNCHANGED raised

\* Handled with the append of the line left out.
HandledWithoutLine(w, status, tag) ==
    IF Has(cid[w])
    THEN /\ task_status' = [task_status EXCEPT ![cid[w]].status = status]
         /\ pc' = [pc EXCEPT ![w] = "cleanup"]
         /\ UNCHANGED raised
    ELSE /\ UNCHANGED task_status
         /\ Escapes(w)

\* An except clause of run_download: record the error status and its line.
Handled(w, status, tag) ==
    IF Has(cid[w])
    THEN /\ task_status' = [task_status EXCEPT
                ![cid[w]].status = status,
                ![cid[w]].output = Extend(@, <<Entry(tag, 0)>>)]
         /\ pc' = [pc EXCEPT ![w] = "cleanup"]
         /\ UNCHANGED raised
    ELSE /\ UNCHANGED task_status
         /\ Escapes(w)

\* POST /start_download and /start_vod_download with a valid request:
\* limit_task_count(), a new downloader, thread.start(), 202.
Submit(w, id) ==
    /\ UNCHANGED pvars
    /\ resp' = 202
    /\ pc[w] = "idle"
    /\ \A i \in 1..Len(WorkerOrder) :
          WorkerOrder[i] = w => \A j \in 1..(i - 1) : pc[WorkerOrder[j]] # "idle"
    /\ task_status' = limit_task_count(task_status)
    /\ cid' = [cid EXCEPT ![w] = id]
    /\ pc' = [pc EXCEPT ![w] = "init"]
    /\ UNCHANGED <<active_processes, now, cancelled, proc, rc, nread,
                   output_buffer, critical, downloaded_file, raised, creq>>

\* A request to a submit route, by what the route tests.  variant: regular
\* (/start_download) or vod (/start_vod_download).  url: absent (no JSON
\* object, an empty one, or one without the key), nonstring (null, a
\* number: .strip() raises and the route answers 500), empty (blank after
\* strip), invalid (extract_url finds no URL or is_valid_url rejects it),
\* valid.  date, read by the vod route only: absent (or blank), nonstring,
\* malformed (strptime raises ValueError), valid.
UrlKinds == {"absent", "nonstring", "empty", "invalid", "valid"}
DateKinds == {"absent", "nonstring", "malformed", "valid"}
Requests == [variant : {"regular", "vod"}, url : UrlKinds, date : DateKinds]

\* The status code the route answers with, in the order of its tests; the
\* vod route strips the date (line 941) before it tests the URL.
submit_response(req) ==
    IF req.url = "absent" THEN 400
    ELSE IF req.url = "nonstring" THEN 500
    ELSE IF req.variant = "vod" /\ req.date = "nonstring" THEN 500
    ELSE IF req.url = "empty" THEN 400
    ELSE IF req.url = "invalid" THEN 400
    ELSE IF req.variant = "vod" /\ req.date = "malformed" THEN 400
    ELSE 202

\* Reject with limit_task_count() run before the tests of the request.
RejectAfterLimit(req) ==
    /\ submit_response(req) # 202
    /\ resp' = submit_response(req)
    /\ task_status' = limit_task_count(task_status)
    /\ UNCHANGED <<active_processes, now, pc, cid, cancelled, proc, rc, nread,
                   output_buffer, critical, downloaded_file, raised, creq>>
    /\ UNCHANGED pvars

\* POST /start_download and /start_vod_download with a request that is not
\* accepted: the route returns before limit_task_count() at lines 908 and
\* 958.
Reject(req) ==
    /\ submit_response(req) # 202
    /\ resp' = submit_response(req)
    /\ UNCHANGED mvars
    /\ UNCHANGED pvars

\* Lines 686-699: register the handle, create the record, save_tasks().
WInit(w) ==
    /\ UNCHANGED <<pvars, resp>>
    /\ pc[w] = "init"
    /\ active_processes' = Put(active_processes, cid[w], w)
    /\ task_status' = Put(task_status, cid[w], NewTask(now))
    /\ pc' = [pc EXCEPT ![w] = "starting"]
    /\ UNCHANGED <<now, cid, cancelled, proc, rc, nread, output_buffer,
                   critical, downloaded_file, raised, creq>>

\* Lines 702-712: the URL was validated by the route with the same
\* is_valid_url, so the check passes; two lines, status 'starting',
\* save_tasks().
WStarting(w) ==
    /\ UNCHANGED <<pvars, resp>>
    /\ pc[w] = "starting"
    /\ IF Has(cid[w])
       THEN /\ task_status' = [task_status EXCEPT
                   ![cid[w]].output =
                       Extend(@, <<Entry("validated", 0), Entry("starting", 0)>>),
                   ![cid[w]].status = "starting"]
            /\ pc' = [pc EXCEPT ![w] = "spawn"]
            /\ UNCHANGED raised
       ELSE /\ UNCHANGED task_status
            /\ Escapes(w)
    /\ UNCHANGED <<active_processes, now, cid, cancelled, proc, rc, nread,
                   output_buffer, critical, downloaded_file, creq>>

\* Lines 715-729: Popen, then status 'downloading'.  Popen raises
\* FileNotFoundError (lines 806-811) or another OSError (lines 819-823).
WSpawn(w, outcome) ==
    /\ UNCHANGED <<pvars, resp>>
    /\ pc[w] = "spawn"
    /\ IF outcome = "ok"
       THEN /\ proc' = [proc EXCEPT ![w] = "running"]
            /\ IF Has(cid[w])
               THEN /\ task_status' =
                          [task_status EXCEPT ![cid[w]].status = "downloading"]
                    /\ pc' = [pc EXCEPT ![w] = "loop"]
                    /\ UNCHANGED raised
               ELSE /\ UNCHANGED task_status
                    /\ Escapes(w)
       ELSE /\ UNCHANGED proc
            /\ IF outcome = "notfound"
               THEN Handled(w, "error: yt-dlp not found", "error_notfound")
               ELSE Handled(w, "error: PermissionError", "error_unexpected")
    /\ UNCHANGED <<active_processes, now, cid, cancelled, rc, nread,
                   output_buffer, critical, downloaded_file, creq>>

\* Lines 764-770: the loop is over; flush what is buffered (no trimming,
\* save_tasks(force=True)), close the stream, go and wait.
LoopExit(w) ==
    /\ IF output_buffer[w] # <<>>
       THEN IF Has(cid[w])
            THEN /\ task_status' = [task_status EXCEPT
                        ![cid[w]].output = Extend(@, output_buffer[w])]
                 /\ pc' = [pc EXCEPT ![w] = "wait"]
                 /\ UNCHANGED raised
            ELSE /\ UNCHANGED task_status
                 /\ Escapes(w)
       ELSE /\ pc' = [pc EXCEPT ![w] = "wait"]
            /\ UNCHANGED <<task_status, raised>>
    /\ UNCHANGED <<active_processes, now, cid, cancelled, proc, rc, nread,
                   output_buffer, critical, downloaded_file, creq>>

\* Lines 732-762: one line arrives from the running process.  timeUp says
\* whether 0.5 s have passed since the last flush; max bounds the stream.
WReadLine(w, line, timeUp, max) ==
    /\ UNCHANGED <<pvars, resp>>
    /\ pc[w] = "loop"
    /\ proc[w] = "running"
    /\ nread[w] < max
    /\ IF cancelled[w]
       THEN LoopExit(w)
       ELSE IF line.blank
       THEN UNCHANGED vars
       ELSE LET n == nread[w] + 1
                buf == Append(output_buffer[w], Entry("line", n))
                flush == Len(buf) >= 2 \/ timeUp
                parsed == IF Has(cid[w])
                          THEN [task_status EXCEPT ![cid[w]].progress =
                                    parse_progress(@, line)]
                          ELSE task_status
            IN /\ nread' = [nread EXCEPT ![w] = n]
               /\ downloaded_file' = [downloaded_file EXCEPT ![w] =
                                         @ \/ (line.dl /\ line.dest)]
               /\ critical' = [critical EXCEPT ![w] = @ \/ handle_errors(line)]
               /\ IF ~flush
                  THEN /\ output_buffer' = [output_buffer EXCEPT ![w] = buf]
                       /\ task_status' = parsed
                       /\ UNCHANGED <<pc, raised>>
                  ELSE IF Has(cid[w])
                  THEN /\ task_status' = [parsed EXCEPT
                              ![cid[w]].output = LoopFlush(@, buf)]
                       /\ output_buffer' = [output_buffer EXCEPT ![w] = <<>>]
                       /\ UNCHANGED <<pc, raised>>
                  ELSE /\ output_buffer' = [output_buffer EXCEPT ![w] = buf]
                       /\ task_status' = parsed
                       /\ Escapes(w)
               /\ UNCHANGED <<active_processes, now, cid, cancelled, proc, rc,
                              creq>>

\* readline returns '': the process has closed its stream.
WEof(w) ==
    /\ UNCHANGED <<pvars, resp>>
    /\ pc[w] = "loop"
    /\ proc[w] = "exited"
    /\ LoopExit(w)

\* readline returns '' while the process runs on: the process has closed
\* its output stream and has not ended.
WEofAlive(w) ==
    /\ UNCHANGED <<pvars, resp>>
    /\ pc[w] = "loop"
    /\ proc[w] = "running"
    /\ LoopExit(w)

\* FinalBranch with the test of critical_error_found left out.
FinalBranchIgnoringCritical(isCancelled, code, crit) ==
    IF isCancelled THEN "wr_cancelled"
    ELSE IF code = 0 THEN "wr_finished"
    ELSE "wr_error"

\* Lines 778-793, the branch taken: the priority order of the final status.
FinalBranch(isCancelled, code, crit) ==
    IF isCancelled THEN "wr_cancelled"
    ELSE IF code = 0 /\ ~crit THEN "wr_finished"
    ELSE "wr_error"

FinalPcs == {"wr_cancelled", "wr_finished", "wr_error"}
\* Where the writes of a branch end: in the finished branch the status is
\* written first (line 782) and the progress and the lines after it.
WritePcs == {"wr_cancelled", "wr_progress", "wr_error"}

\* Lines 771-781: wait(timeout=30) returns the exit code and the branch is
\* chosen from self.cancelled, the code and critical_error_found; or the
\* process is still running after 30 s and TimeoutExpired is handled at
\* lines 799-804.
WWait(w) ==
    /\ UNCHANGED <<pvars, resp>>
    /\ pc[w] = "wait"
    /\ IF proc[w] = "exited"
       THEN /\ pc' = [pc EXCEPT ![w] = FinalBranch(cancelled[w], rc[w], critical[w])]
            /\ UNCHANGED <<task_status, raised>>
       ELSE Handled(w, "error: timeout", "error_timeout")
    /\ UNCHANGED <<active_processes, now, cid, cancelled, proc, rc, nread,
                   output_buffer, critical, downloaded_file, creq>>

\* The record after the writes of the chosen branch; linked says whether
\* create_url_shortcut returned True.
FinalRecord(rec, branch, code, hasFile, linked) ==
    IF branch = "wr_cancelled"
    THEN [rec EXCEPT !.status = "cancelled",
                     !.output = Extend(@, <<Entry("final_cancelled", 0)>>)]
    ELSE IF branch = "wr_progress"
    THEN [rec EXCEPT !.progress = 100,
                     !.output = Extend(@,
                         IF hasFile /\ linked
                         THEN <<Entry("link", 0), Entry("success", 0)>>
                         ELSE <<Entry("success", 0)>>)]
    ELSE [rec EXCEPT !.status = ExitStatus(code),
                     !.output = Extend(@, <<Entry("error_exit", 0)>>)]

\* Line 782: the first write of the finished branch, the status.  The
\* thread can be suspended before the next statement.
WFinished(w) ==
    /\ UNCHANGED <<pvars, resp>>
    /\ pc[w] = "wr_finished"
    /\ IF Has(cid[w])
       THEN /\ task_status' = [task_status EXCEPT ![cid[w]].status = "finished"]
            /\ pc' = [pc EXCEPT ![w] = "wr_progress"]
            /\ UNCHANGED raised
       ELSE /\ UNCHANGED task_status
            /\ Escapes(w)
    /\ UNCHANGED <<active_processes, now, cid, cancelled, proc, rc, nread,
                   output_buffer, critical, downloaded_file, creq>>

\* Lines 779-797: the writes of the chosen branch (in the finished branch
\* those from line 783 on), save_tasks(force=True).
WFinal(w, linked) ==
    /\ UNCHANGED <<pvars, resp>>
    /\ pc[w] \in WritePcs
    /\ IF Has(cid[w])
       THEN /\ task_status' = [task_status EXCEPT ![cid[w]] =
                   FinalRecord(@, pc[w], rc[w], downloaded_file[w], linked)]
            /\ pc' = [pc EXCEPT ![w] = "cleanup"]
            /\ UNCHANGED raised
       ELSE /\ UNCHANGED task_status
            /\ Escapes(w)
    /\ UNCHANGED <<active_processes, now, cid, cancelled, proc, rc, nread,
                   output_buffer, critical, downloaded_file, creq>>

\* WCleanup that returns without looking at the process.
WCleanupWithoutEnsure(w) ==
    /\ UNCHANGED <<pvars, resp>>
    /\ pc[w] = "cleanup"
    /\ active_processes' = Del(active_processes, {cid[w]})
    /\ pc' = [pc EXCEPT ![w] = "done"]
    /\ UNCHANGED <<task_status, now, cid, cancelled, proc, rc, nread,
                   output_buffer, critical, downloaded_file, raised, creq>>

\* Lines 826-833: drop whatever handle is registered under the id, then
\* poll the process and send terminate() if it is alive.
WCleanup(w) ==
    /\ UNCHANGED <<pvars, resp>>
    /\ pc[w] = "cleanup"
    /\ active_processes' = Del(active_processes, {cid[w]})
    /\ pc' = [pc EXCEPT ![w] = IF proc[w] = "running" THEN "ensure" ELSE "done"]
    /\ UNCHANGED <<task_status, now, cid, cancelled, proc, rc, nread,
                   output_buffer, critical, downloaded_file, raised, creq>>

\* What a running process does with terminate(): it ends within the 5 s
\* of the wait that follows, or it does not.
StopOutcomes == {"stopped", "slow"}

\* Lines 834-839: wait(timeout=5) after terminate(); when the process has
\* ended the code goes on; when the wait times out, kill() is sent and
\* run_download returns without waiting for the process.
WEnsure(w, o) ==
    /\ UNCHANGED <<pvars, resp>>
    /\ pc[w] = "ensure"
    /\ IF o = "slow" /\ proc[w] = "running"
       THEN /\ proc' = [proc EXCEPT ![w] = "killed"]
            /\ UNCHANGED rc
       ELSE /\ proc' = cancel_proc({w})
            /\ rc' = cancel_rc({w})
    /\ pc' = [pc EXCEPT ![w] = "done"]
    /\ UNCHANGED <<task_status, active_processes, now, cid, cancelled, nread,
                   output_buffer, critical, downloaded_file, raised, creq>>

\* ---------------------------------------------------------------- handlers
\* Lines 1013-1022: status 'cancelled' and the handler's line.
MarkCancelled(ts, id, tag) ==
    [ts EXCEPT ![id].status = "cancelled",
               ![id].output = Extend(@, <<Entry(tag, 0)>>)]

\* POST /cancel_download/<id>, lines 1001-1012, for a request that is
\* accepted: the record exists and its status is not terminal.  With a
\* registered handle cancel_download sets the flag and, when the process is
\* alive, terminates it and waits (the handler goes on in CancelEnd);
\* otherwise the handler marks the task at once.
CancelBegin(id) ==
    /\ UNCHANGED <<pvars, resp>>
    /\ Has(id)
    /\ ~IsTerminal(task_status[id].status)
    /\ creq[id] = "none"
    /\ IF id \in DOMAIN active_processes
       THEN LET w == active_processes[id]
            IN /\ cancelled' = cancel_flag({w})
               /\ proc' = cancel_proc({w})
               /\ rc' = cancel_rc({w})
               /\ IF proc[w] = "running"
                  THEN /\ creq' = [creq EXCEPT ![id] = "by_user"]
                       /\ UNCHANGED task_status
                  ELSE /\ task_status' = MarkCancelled(task_status, id, "cancel_marked")
                       /\ UNCHANGED creq
       ELSE /\ task_status' = MarkCancelled(task_status, id, "cancel_plain")
            /\ UNCHANGED <<cancelled, proc, rc, creq>>
    /\ UNCHANGED <<active_processes, now, pc, cid, nread, output_buffer,
                   critical, downloaded_file, raised>>

\* Lines 1012-1026 after cancel_download returned True: the handler marks
\* the task, save_tasks(force=True), 200.  A record removed meanwhile makes
\* the write raise KeyError and the request ends 500.
CancelEnd(id) ==
    /\ UNCHANGED <<pvars, resp>>
    /\ creq[id] = "by_user"
    /\ creq' = [creq EXCEPT ![id] = "none"]
    /\ task_status' = IF Has(id)
                      THEN MarkCancelled(task_status, id, "cancel_by_user")
                      ELSE task_status
    /\ UNCHANGED <<active_processes, now, pc, cid, cancelled, proc, rc, nread,
                   output_buffer, critical, downloaded_file, raised>>

\* The downloaders registered under the ids of a set.
Registered(ids) == {active_processes[id] : id \in ids \cap DOMAIN active_processes}

\* DELETE /remove_task/<id>, lines 1034-1051, for an id that is present.
remove_task(id) ==
    /\ UNCHANGED <<pvars, resp>>
    /\ Has(id)
    /\ cancelled' = cancel_flag(Registered({id}))
    /\ proc' = cancel_proc(Registered({id}))
    /\ rc' = cancel_rc(Registered({id}))
    /\ active_processes' = Del(active_processes, {id})
    /\ task_status' = Del(task_status, {id})
    /\ UNCHANGED <<now, pc, cid, nread, output_buffer, critical,
                   downloaded_file, raised, creq>>

\* Expired taking a record that is exactly as old as the window.
ExpiredInclusive(ts, t) ==
    {id \in DOMAIN ts : t - ts[id].created_at >= TASK_RETENTION_HOURS}

\* cleanup_old_tasks, lines 328-335: the ids past the retention window.
Expired(ts, t) ==
    {id \in DOMAIN ts : t - ts[id].created_at > TASK_RETENTION_HOURS}

\* cleanup_old_tasks, line 351: the value returned, len(to_remove).
cleanup_old_tasks_count(ts, t) == Cardinality(Expired(ts, t))

\* GET /get_tasks: cleanup_old_tasks(), lines 337-351, then the listing.
get_tasks ==
    LET to_remove == Expired(task_status, now)
    IN /\ cancelled' = cancel_flag(Registered(to_remove))
       /\ proc' = cancel_proc(Registered(to_remove))
       /\ rc' = cancel_rc(Registered(to_remove))
       /\ active_processes' = Del(active_processes, to_remove)
       /\ task_status' = Del(task_status, to_remove)
       /\ UNCHANGED <<now, pc, cid, nread, output_buffer, critical,
                      downloaded_file, raised, creq>>
       /\ UNCHANGED <<pvars, resp>>

\* POST /clear_tasks, lines 1071-1080: every registered download is
\* cancelled and both dictionaries are replaced by empty ones.
ClearAll ==
    /\ cancelled' = cancel_flag(Registered(Ids))
    /\ proc' = cancel_proc(Registered(Ids))
    /\ rc' = cancel_rc(Registered(Ids))
    /\ active_processes' = EmptyDict
    /\ task_status' = EmptyDict
    /\ UNCHANGED <<now, pc, cid, nread, output_buffer, critical,
                   downloaded_file, raised, creq>>

\* POST /clear_tasks, lines 1071-1087.
clear_tasks ==
    /\ ClearAll
    /\ UNCHANGED <<pvars, resp>>

\* Time passes: a retention window, or a little more.
TickSteps == {TASK_RETENTION_HOURS, TASK_RETENTION_HOURS + 1}
Tick(d) ==
    /\ UNCHANGED <<pvars, resp>>
    /\ now + d <= MaxClock
    /\ now' = now + d
    /\ UNCHANGED <<task_status, active_processes, pc, cid, cancelled, proc, rc,
                   nread, output_buffer, critical, downloaded_file, raised, creq>>

\* -------------------------------------------------------------- save_tasks
\* How a file operation of save_tasks ends: it works; it raises and the
\* handler removes the temp file; it raises and os.remove fails too.
SaveOutcomes == {"ok", "fail", "fail_keep_tmp"}

\* Lines 288-292: read the clock; a throttled call returns False at once,
\* any other goes on to the lock.
SaveCall(s, force, caller) ==
    /\ saver[s].pc = "idle"
    /\ saver' = [saver EXCEPT ![s] =
          [pc |-> IF ~force /\ secs - last_save_time < THROTTLE_S
                  THEN "returned" ELSE "lock",
           force |-> force, t |-> secs, ret |-> FALSE, caller |-> caller]]
    /\ UNCHANGED <<disk, tmp, backup, last_save_time, save_lock, secs, phase>>

\* save_tasks(force) called by a worker or a handler after it has changed
\* the store.
save_tasks(s, force) ==
    /\ SaveCall(s, force, "other")
    /\ UNCHANGED <<mvars, resp>>

\* POST /clear_tasks, lines 1071-1083: the dictionaries are emptied, then
\* save_tasks(force=True) is called.
ClearRequest(s) ==
    /\ ClearAll
    /\ SaveCall(s, TRUE, "clear")
    /\ UNCHANGED resp

\* Lines 1083-1087: the status code of /clear_tasks.
clear_response(ret) == IF ret THEN 200 ELSE 500

\* The lock taken whether it is free or not.
CanLockAlways(s) == TRUE

\* Line 294, with _save_lock: the call goes on when the lock is free.
CanLock(s) == save_lock = "free"

\* The except clause that also records the time of the call.
SaveFailsAdvancingTime(s, o) ==
    /\ saver' = [saver EXCEPT ![s].pc = "returned", ![s].ret = FALSE]
    /\ save_lock' = "free"
    /\ tmp' = IF o = "fail_keep_tmp" THEN tmp ELSE NoTmp
    /\ last_save_time' = saver[s].t
    /\ UNCHANGED disk

\* Lines 309-317: the except clause removes the temp file if it can and
\* returns False; the lock is released on the way out.
SaveFails(s, o) ==
    /\ saver' = [saver EXCEPT ![s].pc = "returned", ![s].ret = FALSE]
    /\ save_lock' = "free"
    /\ tmp' = IF o = "fail_keep_tmp" THEN tmp ELSE NoTmp
    /\ UNCHANGED <<disk, last_save_time>>

\* Lines 294-297: take the lock and open the temp file for writing, which
\* truncates it.
SaveOpen(s, o) ==
    /\ saver[s].pc = "lock"
    /\ CanLock(s)
    /\ IF o = "ok"
       THEN /\ save_lock' = s
            /\ tmp' = TmpFile("partial", EmptyDict, s)
            /\ saver' = [saver EXCEPT ![s].pc = "dump"]
            /\ UNCHANGED <<disk, last_save_time>>
       ELSE SaveFails(s, o)
    /\ UNCHANGED <<backup, secs, phase>>
    /\ UNCHANGED <<mvars, resp>>

\* Line 298: json.dump writes the store as it is and the file is closed.
\* A temp file that another call has opened meanwhile is left broken.
SaveDump(s, o) ==
    /\ saver[s].pc = "dump"
    /\ IF o = "ok"
       THEN /\ tmp' = IF tmp.by = s
                      THEN TmpFile("json", json_dump(task_status).doc, s)
                      ELSE TmpFile("partial", EmptyDict, tmp.by)
            /\ saver' = [saver EXCEPT ![s].pc = "replace"]
            /\ UNCHANGED <<disk, last_save_time, save_lock>>
       ELSE SaveFails(s, o)
    /\ UNCHANGED <<backup, secs, phase>>
    /\ UNCHANGED <<mvars, resp>>

\* Lines 301-307: os.replace / os.rename puts the temp file in the place of
\* the durable file, _last_save_time becomes the time read at line 289 and
\* the call returns True.  Without a temp file the rename raises.
SaveReplace(s, o) ==
    /\ saver[s].pc = "replace"
    /\ IF o = "ok" /\ tmp.kind # "absent"
       THEN /\ disk' = File(tmp.kind, tmp.doc)
            /\ tmp' = NoTmp
            /\ last_save_time' = saver[s].t
            /\ save_lock' = "free"
            /\ saver' = [saver EXCEPT ![s].pc = "returned", ![s].ret = TRUE]
       ELSE SaveFails(s, o)
    /\ UNCHANGED <<backup, secs, phase>>
    /\ UNCHANGED <<mvars, resp>>

\* A second passes.
TickSec ==
    /\ secs < MaxSecs
    /\ secs' = secs + 1
    /\ UNCHANGED <<disk, tmp, backup, last_save_time, save_lock, saver, phase>>
    /\ UNCHANGED <<mvars, resp>>

\* -------------------------------------------------------------- load_tasks
\* Line 271: the fields a record must have.
RequiredFields == {"status", "output", "created_at"}
\* A value of the JSON object that is not itself an object is modelled as
\* a record with the one field scalar.
IsDict(v) == "scalar" \notin DOMAIN v

\* IsValidTask asking for the status alone.
IsValidTaskLoose(v) == IsDict(v) /\ "status" \in DOMAIN v

\* Lines 266-274: isinstance(task, dict) and all required fields present.
IsValidTask(v) == IsDict(v) /\ RequiredFields \subseteq DOMAIN v

\* _validate_tasks, lines 263-279: the invalid records are deleted.
validate_tasks(doc) == Del(doc, {id \in DOMAIN doc : ~IsValidTask(doc[id])})

\* load_tasks at startup, line 1180, no other thread running.  A JSON
\* object is loaded and validated, and save_tasks(force=True) follows when
\* records were dropped (line 282).  json.JSONDecodeError (line 243) leads
\* to shutil.copy2 into a backup, which may fail (line 249), and an empty
\* store; anything else that is raised (line 252: UnicodeDecodeError from
\* the read, TypeError or AttributeError on JSON that is not an object)
\* leads to an empty store; so does a missing file.
load_tasks(copied, o) ==
    /\ phase = "boot"
    /\ phase' = "up"
    /\ IF disk.kind = "json"
       THEN /\ task_status' = validate_tasks(json_load(disk))
            /\ IF task_status' # json_load(disk) /\ o = "ok"
               THEN /\ disk' = json_dump(task_status')
                    /\ last_save_time' = secs
               ELSE UNCHANGED <<disk, last_save_time>>
            /\ tmp' = IF task_status' # json_load(disk) /\ o = "fail_keep_tmp"
                      THEN TmpFile("partial", EmptyDict, "load") ELSE tmp
            /\ UNCHANGED backup
       ELSE /\ task_status' = EmptyDict
            /\ backup' = IF disk.kind = "badjson" /\ copied THEN disk ELSE backup
            /\ UNCHANGED <<disk, tmp, last_save_time>>
    /\ UNCHANGED <<save_lock, secs, saver, resp>>
    /\ UNCHANGED <<active_processes, now, pc, cid, cancelled, proc, rc, nread,
                   output_buffer, critical, downloaded_file, raised, creq>>

\* ---------------------------------------------------------- specifications
SpawnOutcomes == {"ok", "notfound", "denied"}
ExitCodes == {0, 1}

\* The steps of downloader w's thread and of its process, on a stream of at
\* most max lines drawn from lines.
Worker(w, lines, max) ==
    \/ WInit(w)
    \/ WStarting(w)
    \/ \E o \in SpawnOutcomes : WSpawn(w, o)
    \/ \E line \in lines, timeUp \in BOOLEAN : WReadLine(w, line, timeUp, max)
    \/ WEof(w)
    \/ WWait(w)
    \/ WFinished(w)
    \/ \E linked \in BOOLEAN : WFinal(w, linked)
    \/ WCleanup(w)
    \/ \E o \in StopOutcomes : WEnsure(w, o)
    \/ \E code \in ExitCodes : ProcExit(w, code)
    \/ ProcDie(w)
    \/ WEofAlive(w)

\* The first downloader created.
First == WorkerOrder[1]

\* Spec: one submission, its worker and process, and every handler.
Next ==
    \/ \E id \in Ids : Submit(First, id)
    \/ Worker(First, Lines, MaxLines)
    \/ \E id \in Ids : CancelBegin(id)
    \/ \E id \in Ids : CancelEnd(id)
    \/ \E id \in Ids : remove_task(id)
    \/ get_tasks
    \/ clear_tasks
    \/ \E d \in TickSteps : Tick(d)

Spec == Init /\ [][Next]_vars

\* The steps run_download takes by itself, whatever the process does: every
\* step but the arrival of a line.  readline() at line 733 blocks until the
\* process writes a line or closes its stream.
WorkerThread(w) ==
    \/ WInit(w)
    \/ WStarting(w)
    \/ \E o \in SpawnOutcomes : WSpawn(w, o)
    \/ WEof(w)
    \/ WWait(w)
    \/ WFinished(w)
    \/ \E linked \in BOOLEAN : WFinal(w, linked)
    \/ WCleanup(w)
    \/ \E o \in StopOutcomes : WEnsure(w, o)

\* SpecFair: Spec with a worker thread that is scheduled: a daemon thread
\* started at line 919 runs whenever it has a step to take.  Nothing makes
\* the process write, end, or the user cancel.
SpecFair == Spec /\ WF_vars(WorkerThread(First))

\* SpecDup: two submissions, which may carry the same client id, their
\* workers, whose processes end without output, and the remove handler.
NextDup ==
    \/ \E w \in Workers, id \in Ids : Submit(w, id)
    \/ \E w \in Workers : Worker(w, {}, 0)
    \/ \E id \in Ids : remove_task(id)
    \/ \E d \in TickSteps : Tick(d)

SpecDup == Init /\ [][NextDup]_vars

\* SpecLog: one submission whose process writes a long stream of plain
\* lines, and the cancel handler.
NextLog ==
    \/ Submit(First, "a")
    \/ Worker(First, {PlainLine}, LogLines)
    \/ CancelBegin("a")
    \/ CancelEnd("a")

SpecLog == Init /\ [][NextLog]_vars

\* SpecBenign: one submission whose process writes lines that all match a
\* non_critical_patterns entry, the cancel handler and the remove handler.
NextBenign ==
    \/ \E id \in Ids : Submit(First, id)
    \/ Worker(First, BenignLines, MaxLines)
    \/ \E id \in Ids : CancelBegin(id)
    \/ \E id \in Ids : CancelEnd(id)
    \/ \E id \in Ids : remove_task(id)

SpecBenign == Init /\ [][NextBenign]_vars

\* SpecSweep: two submissions under any ids, their workers, whose
\* processes end without output, the clock and the listing handler with
\* its retention sweep, which is here the only step that deletes records.
NextSweep ==
    \/ \E w \in Workers, id \in Ids : Submit(w, id)
    \/ \E w \in Workers : Worker(w, {}, 0)
    \/ get_tasks
    \/ \E d \in TickSteps : Tick(d)

SpecSweep == Init /\ [][NextSweep]_vars

\* SpecPersist: one submission and its worker, whose process ends without
\* output, the clear handler, two threads that call save_tasks at any
\* moment, each once, and the clock of the throttle.
NextPersist ==
    \/ Submit(First, "a")
    \/ Worker(First, {}, 0)
    \/ \E s \in Savers, force \in BOOLEAN : save_tasks(s, force)
    \/ \E s \in Savers : ClearRequest(s)
    \/ \E s \in Savers, o \in SaveOutcomes : SaveOpen(s, o)
    \/ \E s \in Savers, o \in SaveOutcomes : SaveDump(s, o)
    \/ \E s \in Savers, o \in SaveOutcomes : SaveReplace(s, o)
    \/ TickSec

SpecPersist == Init /\ [][NextPersist]_vars

\* SpecLoad: the server starts with some durable file and runs load_tasks.
\* The values of the JSON object: a complete record, a record with the
\* required fields only, records that lack one required field, and a value
\* that is not an object.
LoadRecord == [NewTask(0) EXCEPT !.status = "finished"]
LoadValues ==
    {LoadRecord,
     [status |-> "finished", output |-> <<>>, created_at |-> 0],
     [output |-> <<>>, created_at |-> 0, progress |-> 0],
     [status |-> "finished", created_at |-> 0, progress |-> 0],
     [status |-> "finished", output |-> <<>>, progress |-> 0],
     [scalar |-> "text"]}
LoadDocs == UNION {[S -> LoadValues] : S \in SUBSET Ids}
LoadFiles ==
    {File("json", d) : d \in LoadDocs}
    \cup {File(k, EmptyDict) : k \in {"absent", "notobject", "badjson", "badutf8"}}

InitLoad ==
    /\ disk \in LoadFiles
    /\ phase = "boot"
    /\ tmp = NoTmp
    /\ backup = NoFile
    /\ last_save_time = 0
    /\ save_lock = "free"
    /\ secs = THROTTLE_S
    /\ saver = [s \in Savers |-> IdleSaver]
    /\ task_status = EmptyDict
    /\ active_processes = EmptyDict
    /\ now = 0
    /\ pc = [w \in Workers |-> "idle"]
    /\ cid = [w \in Workers |-> "a"]
    /\ cancelled = [w \in Workers |-> FALSE]
    /\ proc = [w \in Workers |-> "none"]
    /\ rc = [w \in Workers |-> 0]
    /\ nread = [w \in Workers |-> 0]
    /\ output_buffer = [w \in Workers |-> <<>>]
    /\ critical = [w \in Workers |-> FALSE]
    /\ downloaded_file = [w \in Workers |-> FALSE]
    /\ raised = [w \in Workers |-> FALSE]
    /\ creq = [id \in Ids |-> "none"]
    /\ resp = 0

NextLoad == \E copied \in BOOLEAN, o \in SaveOutcomes : load_tasks(copied, o)

SpecLoad == InitLoad /\ [][NextLoad]_vars

\* SpecRound: the store holds some valid records, under ids that are
\* strings or numbers; save_tasks(force=True) runs with no other thread
\* active and the server is restarted, which runs load_tasks.  Until
\* load_tasks replaces it, task_status still shows the Store that was saved.
SnapshotAndRestart(o) ==
    /\ phase = "up"
    /\ IF o = "ok"
       THEN /\ disk' = json_dump(task_status)
            /\ last_save_time' = secs
            /\ phase' = "boot"
            /\ UNCHANGED tmp
       ELSE /\ tmp' = IF o = "fail_keep_tmp"
                      THEN TmpFile("partial", EmptyDict, "main") ELSE tmp
            /\ UNCHANGED <<disk, last_save_time, phase>>
    /\ UNCHANGED <<backup, save_lock, secs, saver>>
    /\ UNCHANGED <<mvars, resp>>

RoundIds == {"a", "5"} \cup IntIds
RoundRecords ==
    {NewTask(0),
     [NewTask(0) EXCEPT !.status = "downloading", !.progress = 50],
     LoadRecord}
RoundStores == UNION {[S -> RoundRecords] : S \in SUBSET RoundIds}

InitRound ==
    /\ InitFiles
    /\ task_status \in RoundStores
    /\ active_processes = EmptyDict
    /\ now = 0
    /\ pc = [w \in Workers |-> "idle"]
    /\ cid = [w \in Workers |-> "a"]
    /\ cancelled = [w \in Workers |-> FALSE]
    /\ proc = [w \in Workers |-> "none"]
    /\ rc = [w \in Workers |-> 0]
    /\ nread = [w \in Workers |-> 0]
    /\ output_buffer = [w \in Workers |-> <<>>]
    /\ critical = [w \in Workers |-> FALSE]
    /\ downloaded_file = [w \in Workers |-> FALSE]
    /\ raised = [w \in Workers |-> FALSE]
    /\ creq = [id \in Ids |-> "none"]
    /\ resp = 0

NextRound ==
    \/ \E o \in SaveOutcomes : SnapshotAndRestart(o)
    \/ \E copied \in BOOLEAN, o \in SaveOutcomes : load_tasks(copied, o)

SpecRound == InitRound /\ [][NextRound]_vars

\* SpecCap: capacity enforcement.  The Store already holds about MAX_TASKS
\* records, left by earlier submissions: n records under the ids 1..n, of
\* which the t records after the first k are terminal, created one hour
\* apart in the order of their ids or in the opposite order.  One more
\* request is submitted under a new id, its worker runs, and the new task
\* may be removed.
CapNew == 0
CapSizes == (MAX_TASKS - 1)..(MAX_TASKS + CapOver)
CapTerminalStatus(i) ==
    IF i % 3 = 0 THEN "finished"
    ELSE IF i % 3 = 1 THEN "cancelled" ELSE "error: Exit code 1"
CapStore(n, t, k, newestFirst) ==
    [i \in 1..n |->
        [NewTask(IF newestFirst THEN 0 - i ELSE i - n - 1) EXCEPT
            !.status = IF i > k /\ i <= k + t
                       THEN CapTerminalStatus(i) ELSE "downloading"]]
CapStores ==
    {CapStore(n, t, k, d) :
        n \in CapSizes, t \in 0..CapTerminal, k \in {0, 1, MAX_TASKS - CapTerminal},
        d \in BOOLEAN}

InitCap ==
    /\ InitFiles
    /\ task_status \in CapStores
    /\ active_processes = EmptyDict
    /\ now = 0
    /\ pc = [w \in Workers |-> "idle"]
    /\ cid = [w \in Workers |-> CapNew]
    /\ cancelled = [w \in Workers |-> FALSE]
    /\ proc = [w \in Workers |-> "none"]
    /\ rc = [w \in Workers |-> 0]
    /\ nread = [w \in Workers |-> 0]
    /\ output_buffer = [w \in Workers |-> <<>>]
    /\ critical = [w \in Workers |-> FALSE]
    /\ downloaded_file = [w \in Workers |-> FALSE]
    /\ raised = [w \in Workers |-> FALSE]
    /\ creq = [id \in Ids |-> "none"]
    /\ resp = 0

NextCap ==
    \/ Submit(First, CapNew)
    \/ Worker(First, {}, 0)
    \/ remove_task(CapNew)

SpecCap == InitCap /\ [][NextCap]_vars

\* SpecSubmit: SpecCap with the requests the submit routes do not accept.
NextSubmit ==
    \/ Submit(First, CapNew)
    \/ \E req \in Requests : Reject(req)
    \/ Worker(First, {}, 0)
    \/ remove_task(CapNew)

SpecSubmit == InitCap /\ [][NextSubmit]_vars

\* ------------------------------------------------------------------ claims
Present == DOMAIN task_status

\* C1 (Spec).  Once the status of a task is terminal (finished, cancelled or
\* an error), no later step changes it to a different value while the
\* record stays in the Store.
C1_TerminalIsFinal ==
    [][\A id \in Ids :
          (/\ id \in Present
           /\ IsTerminal(task_status[id].status)
           /\ id \in DOMAIN task_status')
          => task_status'[id].status = task_status[id].status]_vars

\* C2 (Spec).  A task whose cancel request was accepted ends cancelled or in
\* an error: once its worker has returned and no cancel request is still in
\* its handler, the status of the record is cancelled or an error status.
\* (In Spec the flag of a downloader whose record is present is set by the
\* cancel route alone: remove, sweep and clear delete the record.)
C2_CancelledTaskEndsCancelled ==
    \A w \in Workers :
        (/\ cancelled[w]
         /\ pc[w] = "done"
         /\ cid[w] \in Present
         /\ creq[cid[w]] = "none")
        => task_status[cid[w]].status \in {"cancelled"} \cup ErrorStatuses

\* C3 (Spec).  An id is a key of the active-handle index exactly when the
\* Store holds a record for it whose status is not terminal.
C3_HandleIffNonTerminal ==
    \A id \in Ids :
        (id \in DOMAIN active_processes)
        <=> (id \in Present /\ ~IsTerminal(task_status[id].status))

\* C4 (Spec).  When wait() has returned, the worker picks cancelled if
\* self.cancelled is set; otherwise finished if the exit code is 0 and no
\* critical line was seen; otherwise the error branch.  The write that
\* follows stores the status of the branch picked: cancelled; finished
\* together with progress 100; or the error status carrying the exit code.
C4_FinalStatusResolution ==
    [][\A w \in Workers :
          /\ (pc[w] = "wait" /\ pc'[w] \notin {"wait", "cleanup"})
             => /\ cancelled[w] => pc'[w] = "wr_cancelled"
                /\ (~cancelled[w] /\ rc[w] = 0 /\ ~critical[w])
                   => pc'[w] = "wr_finished"
                /\ (~cancelled[w] /\ (rc[w] # 0 \/ critical[w]))
                   => pc'[w] = "wr_error"
          /\ (pc[w] = "wr_finished" /\ pc'[w] = "wr_progress")
             => task_status'[cid[w]].status = "finished"
          /\ (pc[w] \in WritePcs /\ pc'[w] = "cleanup" /\ ~raised'[w])
             => LET r == task_status'[cid[w]]
                IN /\ pc[w] = "wr_cancelled" => r.status = "cancelled"
                   /\ pc[w] = "wr_progress"
                      => r.status = "finished" /\ r.progress = 100
                   /\ pc[w] = "wr_error"
                      => /\ r.status \in ErrorStatuses
                         /\ rc[w] = 0 => r.status = "error: Exit code 0"
                         /\ rc[w] = 1 => r.status = "error: Exit code 1"]_vars

\* C4: a run that saw a critical line, ended with exit code 0 and was not
\* cancelled has been resolved to the exit-code error.
C4_Witness ==
    \E w \in Workers :
        /\ pc[w] = "cleanup"
        /\ ~raised[w]
        /\ ~cancelled[w]
        /\ critical[w]
        /\ proc[w] = "exited"
        /\ rc[w] = 0
        /\ cid[w] \in Present
        /\ task_status[cid[w]].status = "error: Exit code 0"

\* C5 (SpecLog).  The output log of every task holds at most 200 entries.
C5_OutputAtMostCap ==
    \A id \in Present : Len(task_status[id].output) <= OUTPUT_CAP

\* C6 (Spec).  The progress of every task is within 0..100, and from one
\* state with status downloading to the next with status downloading it
\* does not decrease.
C6_ProgressBoundedMonotone ==
    /\ [](\A id \in Present :
            task_status[id].progress >= 0 /\ task_status[id].progress <= 100)
    /\ [][\A id \in Ids :
            (/\ id \in Present
             /\ id \in DOMAIN task_status'
             /\ task_status[id].status = "downloading"
             /\ task_status'[id].status = "downloading")
            => task_status'[id].progress >= task_status[id].progress]_vars

\* C7 (SpecDup).  Creating a task under an id the Store already holds
\* fails: the step of a worker that creates its record leaves an existing
\* record of that id, and the handle registered for it, as they were.
C7_CreateExistingFails ==
    [][\A w \in Workers :
          (/\ pc[w] = "init"
           /\ pc'[w] # "init"
           /\ cid[w] \in Present)
          => /\ task_status'[cid[w]] = task_status[cid[w]]
             /\ cid[w] \in DOMAIN active_processes
                => active_processes'[cid[w]] = active_processes[cid[w]]]_vars

\* C8 (Spec).  Once a submit request has returned 202 for a client id, a
\* status query for that id finds the task: already when the worker thread
\* has been started and has not yet run.
C8_AcceptedTaskIsFound ==
    \A w \in Workers : pc[w] = "init" => get_status(cid[w]) = 200

\* C9 (Spec).  The entry of a downloader leaves the active-handle index
\* only when its process is stopped: no step that removes the entry leaves
\* the process of that downloader alive.
C9_HandleRemovedAfterStop ==
    [][\A w \in Workers :
          (/\ cid[w] \in DOMAIN active_processes
           /\ active_processes[cid[w]] = w
           /\ ~(cid[w] \in DOMAIN active_processes'
                /\ active_processes'[cid[w]] = w))
          => proc'[w] # "running"]_vars

\* C10 (Spec).  No exception leaves run_download: a worker thread that has
\* ended has ended normally.
C10_NoExceptionEscapes ==
    \A w \in Workers : pc[w] = "done" => ~raised[w]

\* C11 (SpecFair).  A process that has written nothing leads to the read
\* loop being left, unless the process writes a line, closes its stream or
\* the download is cancelled: the silence itself ends the loop.
C11_SilentProcessTimesOut ==
    \A w \in Workers :
        (pc[w] = "loop" /\ proc[w] = "running" /\ nread[w] = 0 /\ ~cancelled[w])
        ~> (\/ pc[w] # "loop"
            \/ nread[w] > 0
            \/ proc[w] # "running"
            \/ cancelled[w])

\* The statuses and the lines of the two except clauses a failing Popen
\* reaches.
SpawnErrorStatuses == {"error: yt-dlp not found", "error: PermissionError"}
SpawnErrorTags == {"error_notfound", "error_unexpected"}

\* C12 (Spec).  When Popen fails for a task whose record is present with
\* status starting, the same step stores a terminal error status and appends
\* the failure line; a task whose process was never spawned is never
\* downloading; and when the worker has returned, the id is not a key of
\* the active-handle index.
C12_SpawnFailure ==
    /\ [][\A w \in Workers :
            (/\ pc[w] = "spawn"
             /\ pc'[w] = "cleanup"
             /\ proc'[w] = "none"
             /\ cid[w] \in Present
             /\ task_status[cid[w]].status = "starting")
            => /\ ~raised'[w]
               /\ cid[w] \in DOMAIN task_status'
               /\ task_status'[cid[w]].status \in SpawnErrorStatuses
               /\ IsTerminal(task_status'[cid[w]].status)
               /\ \E tag \in SpawnErrorTags :
                     task_status'[cid[w]].output =
                         Append(task_status[cid[w]].output, Entry(tag, 0))]_vars
    /\ [](\A w \in Workers :
            (pc[w] # "idle" /\ proc[w] = "none" /\ cid[w] \in Present)
            => task_status[cid[w]].status # "downloading")
    /\ [](\A w \in Workers :
            (pc[w] = "done" /\ proc[w] = "none")
            => cid[w] \notin DOMAIN active_processes)

\* C12: Popen failed with FileNotFoundError, the worker has returned, the
\* record carries the error and the handle is gone.
C12_Witness ==
    \E w \in Workers :
        /\ pc[w] = "done"
        /\ proc[w] = "none"
        /\ ~raised[w]
        /\ cid[w] \in Present
        /\ task_status[cid[w]].status = "error: yt-dlp not found"
        /\ cid[w] \notin DOMAIN active_processes

\* C13 (SpecCap).  The capacity enforcement a submission runs removes only
\* terminal records; with a terminal record it removes every terminal record
\* created before it; it removes nothing when that would leave fewer than
\* MAX_TASKS records; and the records it keeps are unchanged.
C13_EvictsOldestTerminalOnly ==
    [][\A w \in Workers :
          (pc[w] = "idle" /\ pc'[w] = "init")
          => LET removed == DOMAIN task_status \ DOMAIN task_status'
             IN /\ DOMAIN task_status' \subseteq DOMAIN task_status
                /\ \A i \in DOMAIN task_status' : task_status'[i] = task_status[i]
                /\ \A r \in removed : IsTerminal(task_status[r].status)
                /\ \A r \in removed : \A u \in DOMAIN task_status :
                      (/\ IsTerminal(task_status[u].status)
                       /\ task_status[u].created_at < task_status[r].created_at)
                      => u \in removed
                /\ removed # {}
                   => Cardinality(DOMAIN task_status') >= MAX_TASKS]_vars

\* C13: a submission has evicted records from a Store above the cap, down
\* to MAX_TASKS, and a terminal record newer than the evicted ones is left.
C13_Witness ==
    /\ pc[First] = "init"
    /\ Cardinality(Present) = MAX_TASKS
    /\ \E i \in 1..(MAX_TASKS + CapOver) :
          /\ i \notin Present
          /\ \E j \in Present : j > i /\ IsTerminal(task_status[j].status)

\* C14 (SpecCap).  When the record of an accepted submission is added to a
\* Store that holds a terminal record, the Store holds at most MAX_TASKS
\* records afterwards: the terminal record would have been evicted first.
C14_SubmissionKeepsCap ==
    [][\A w \in Workers :
          (/\ pc[w] = "init"
           /\ pc'[w] = "starting"
           /\ cid[w] \notin Present
           /\ \E i \in Present : IsTerminal(task_status[i].status))
          => Cardinality(DOMAIN task_status') <= MAX_TASKS]_vars

\* C15 (SpecSweep).  A retention sweep that deletes records deletes exactly
\* the records created more than TASK_RETENTION_HOURS before the current
\* time and returns their number; it leaves the other records and their
\* handles as they were; and the downloader registered for a deleted record
\* has been cancelled: its flag is set, its process is not running, its
\* handle is gone.
C15_SweepRemovesExactlyExpired ==
    [][(DOMAIN task_status' # DOMAIN task_status
        /\ DOMAIN task_status' \subseteq DOMAIN task_status)
       => LET removed == DOMAIN task_status \ DOMAIN task_status'
          IN /\ removed = {id \in DOMAIN task_status :
                              now - task_status[id].created_at
                                  > TASK_RETENTION_HOURS}
             /\ cleanup_old_tasks_count(task_status, now) = Cardinality(removed)
             /\ \A id \in DOMAIN task_status' :
                   /\ task_status'[id] = task_status[id]
                   /\ id \in DOMAIN active_processes
                      => /\ id \in DOMAIN active_processes'
                         /\ active_processes'[id] = active_processes[id]
             /\ \A id \in removed :
                   /\ id \notin DOMAIN active_processes'
                   /\ id \in DOMAIN active_processes
                      => /\ cancelled'[active_processes[id]]
                         /\ proc'[active_processes[id]] # "running"]_vars

\* C15: a sweep has deleted the expired record of a downloader that was
\* registered, cancelling it, and has kept the record of another task.
C15_Witness ==
    \E w \in Workers, v \in Workers :
        /\ cancelled[w]
        /\ proc[w] = "exited"
        /\ rc[w] = SIGTERM_CODE
        /\ cid[w] \notin Present
        /\ cid[v] \in Present
        /\ cid[v] \in DOMAIN active_processes

\* C16 (SpecPersist).  A call of save_tasks without force made less than a
\* second after the time of the last successful snapshot returns False at
\* once and writes nothing; a call with force always goes on to the write;
\* and two calls without force that both wrote were made at least a second
\* apart.
C16_ThrottledSnapshots ==
    /\ [][\A s \in Savers :
            (saver[s].pc = "idle" /\ saver'[s].pc # "idle")
            => /\ (~saver'[s].force /\ secs - last_save_time < THROTTLE_S)
                  => /\ saver'[s].pc = "returned"
                     /\ ~saver'[s].ret
                     /\ disk' = disk
               /\ saver'[s].force => saver'[s].pc = "lock"]_vars
    /\ [](\A s1 \in Savers, s2 \in Savers :
            (/\ s1 # s2
             /\ saver[s1].pc = "returned" /\ saver[s1].ret /\ ~saver[s1].force
             /\ saver[s2].pc = "returned" /\ saver[s2].ret /\ ~saver[s2].force
             /\ saver[s1].t <= saver[s2].t)
            => saver[s2].t - saver[s1].t >= THROTTLE_S)

\* C17 (SpecPersist).  At most one call of save_tasks is between opening
\* the temp file and replacing the durable file; the durable file is absent
\* or a complete JSON document; and it changes only by the replace step of
\* one call, to the document that call has written to the temp file.
C17_SnapshotsExclusiveAndAtomic ==
    /\ [](Cardinality({s \in Savers : saver[s].pc \in {"dump", "replace"}}) <= 1)
    /\ [](disk.kind \in {"absent", "json"})
    /\ [][disk' # disk
          => \E s \in Savers :
                /\ saver[s].pc = "replace"
                /\ saver'[s].pc = "returned"
                /\ saver'[s].ret
                /\ save_lock = s
                /\ tmp.by = s
                /\ tmp.kind = "json"
                /\ disk' = File("json", tmp.doc)]_vars

\* C17: one call has written its document to the temp file and is about to
\* replace the durable file while the other call waits for the lock.
C17_Witness ==
    \E s1 \in Savers, s2 \in Savers :
        /\ saver[s1].pc = "replace"
        /\ saver[s2].pc = "lock"
        /\ tmp.kind = "json"
        /\ tmp.doc # EmptyDict

\* C18 (SpecPersist).  The step at which a snapshot fails returns False and
\* leaves the durable file, _last_save_time, the Store and the handle index
\* as they were; no step of a save_tasks call changes the Store or the
\* handle index; /clear_tasks empties the Store and the handle index before
\* it saves, and answers 500 when that save fails.
C18_FailedSnapshotChangesNothing ==
    /\ [][\A s \in Savers :
            (saver[s].pc \in {"lock", "dump", "replace"} /\ saver'[s] # saver[s])
            => /\ task_status' = task_status
               /\ active_processes' = active_processes]_vars
    /\ [][\A s \in Savers :
            (/\ saver[s].pc \in {"lock", "dump", "replace"}
             /\ saver'[s].pc = "returned"
             /\ ~saver'[s].ret)
            => /\ disk' = disk
               /\ last_save_time' = last_save_time
               /\ task_status' = task_status
               /\ active_processes' = active_processes
               /\ saver[s].caller = "clear"
                  => clear_response(saver'[s].ret) = 500]_vars
    /\ [][\A s \in Savers :
            (saver[s].pc = "idle" /\ saver'[s].caller = "clear")
            => /\ task_status' = EmptyDict
               /\ active_processes' = EmptyDict]_vars

\* C18: the save of /clear_tasks has failed: the Store and the handle index
\* are empty and the durable file still holds the task saved before.
C18_Witness ==
    \E s \in Savers :
        /\ saver[s].caller = "clear"
        /\ saver[s].pc = "returned"
        /\ ~saver[s].ret
        /\ Present = {}
        /\ active_processes = EmptyDict
        /\ disk.kind = "json"
        /\ disk.doc # EmptyDict

\* C19 (SpecLoad).  When load_tasks has returned: a durable file that is
\* absent has given an empty Store; a durable file that cannot be parsed
\* has given an empty Store and a backup that holds its content.
C19_LoadNeverFails ==
    phase = "up"
    => /\ disk.kind = "absent" => Present = {}
       /\ disk.kind \in {"badjson", "badutf8"}
          => Present = {} /\ backup = disk

\* C20 as stated (SpecLoad).  load_tasks on a JSON object keeps exactly the
\* records that are objects with status, output and created_at, unchanged,
\* and when it has dropped a record the durable file holds the Store.
C20_LoadRewritesFile ==
    [][(phase = "boot" /\ phase' = "up" /\ disk.kind = "json")
       => LET kept == {id \in DOMAIN disk.doc :
                         /\ "scalar" \notin DOMAIN disk.doc[id]
                         /\ {"status", "output", "created_at"}
                                \subseteq DOMAIN disk.doc[id]}
          IN /\ DOMAIN task_status' = kept
             /\ \A id \in kept : task_status'[id] = disk.doc[id]
             /\ kept # DOMAIN disk.doc
                => disk' = File("json", task_status')]_vars

\* C20 amended (SpecLoad).  load_tasks on a JSON object keeps exactly the
\* records that are objects with status, output and created_at, unchanged;
\* when it has dropped a record it attempts a forced snapshot: either the
\* durable file then holds the Store and _last_save_time is the time of
\* the load, or the snapshot failed and both are as before; when it has
\* dropped nothing the durable file is as before.
C20_LoadKeepsValidRecords ==
    [][(phase = "boot" /\ phase' = "up" /\ disk.kind = "json")
       => LET kept == {id \in DOMAIN disk.doc :
                         /\ "scalar" \notin DOMAIN disk.doc[id]
                         /\ {"status", "output", "created_at"}
                                \subseteq DOMAIN disk.doc[id]}
          IN /\ DOMAIN task_status' = kept
             /\ \A id \in kept : task_status'[id] = disk.doc[id]
             /\ kept # DOMAIN disk.doc
                => \/ /\ disk' = File("json", task_status')
                      /\ last_save_time' = secs
                   \/ /\ disk' = disk
                      /\ last_save_time' = last_save_time
             /\ kept = DOMAIN disk.doc => disk' = disk]_vars

\* C20: a load has dropped a record, kept another, and rewritten the
\* durable file to hold the Store.
C20_Witness ==
    /\ phase = "up"
    /\ Present # {}
    /\ Present # Ids
    /\ disk = File("json", task_status)
    /\ last_save_time = secs

\* C21 (SpecRound).  A load that follows a successful forced snapshot of a
\* Store of valid records, with no change of the Store in between, yields
\* the Store that was saved: the same ids with equal records.
C21_RoundTrip ==
    [][(phase = "boot" /\ phase' = "up")
       => /\ DOMAIN task_status' = DOMAIN task_status
          /\ \A id \in DOMAIN task_status : task_status'[id] = task_status[id]]_vars

\* The entries of a log that are lines of the process, and their positions
\* in the stream.
IsLineEntry(e) == e.tag = "line"
LineEntries(log) == SelectSeq(log, IsLineEntry)
\* Everything downloader w has appended or is about to: the output of its
\* record followed, while the read loop runs, by its buffer (the flush
\* after the loop leaves the buffer as it is and nothing reads it again).
Appended(w) ==
    (IF cid[w] \in Present THEN task_status[cid[w]].output ELSE <<>>)
        \o (IF pc[w] = "loop" THEN output_buffer[w] ELSE <<>>)

\* C23 (Spec).  The lines of the process stand in the output of the task,
\* followed by the buffer not yet flushed, in the order they were read: the
\* positions in the stream increase along the log.  The step that reads
\* line n puts it last, behind every line read before, on a flush too, and
\* applies the delta of that line to the record as the record is then:
\* after the deltas of the lines read before and before any later one.
C23_LinesAndDeltasInOrder ==
    /\ [](\A w \in Workers :
            LET ls == LineEntries(Appended(w))
            IN pc[w] # "idle" => \A i \in 1..Len(ls) :
                  /\ ls[i].n <= nread[w]
                  /\ \A j \in 1..(i - 1) : ls[j].n < ls[i].n)
    /\ [][\A w \in Workers :
            (nread'[w] # nread[w] /\ cid[w] \in Present)
            => /\ nread'[w] = nread[w] + 1
               /\ cid[w] \in DOMAIN task_status'
               /\ LET before == LineEntries(Appended(w))
                      after == LineEntries(
                                   task_status'[cid[w]].output
                                       \o (IF pc'[w] = "loop" THEN output_buffer'[w]
                                           ELSE <<>>))
                  IN after = Append(before, Entry("line", nread'[w]))
               /\ \E line \in Lines :
                     task_status'[cid[w]].progress =
                         parse_progress(task_status[cid[w]].progress, line)]_vars

\* C23: two lines were read, one of them carrying the progress 10, and
\* flushed; both stand in the output and the progress of the record is 10.
C23_Witness ==
    \E w \in Workers :
        /\ nread[w] = 2
        /\ output_buffer[w] = <<>>
        /\ cid[w] \in Present
        /\ Len(LineEntries(task_status[cid[w]].output)) = 2
        /\ task_status[cid[w]].progress = 10

\* The lines that record the outcome of the shortcut write: the link line
\* of lines 784-785, and a note of its failure.
ShortcutTags == {"link", "link_failed"}

\* C24 (Spec).  The write of a successful run (exit code 0, no critical
\* line, not cancelled) stores the status finished whatever the shortcut
\* write did, and with a downloaded file the outcome of the shortcut write
\* is one of the lines the step appends: the link line, or the note of the
\* failure.
C24_ShortcutFailureIsNoted ==
    [][\A w \in Workers :
          (/\ pc[w] = "wr_progress"
           /\ pc'[w] = "cleanup"
           /\ ~raised'[w])
          => LET old == task_status[cid[w]].output
                 new == task_status'[cid[w]].output
             IN /\ task_status'[cid[w]].status = "finished"
                /\ downloaded_file[w]
                   => \E i \in (Len(old) + 1)..Len(new) :
                         new[i].tag \in ShortcutTags]_vars

\* The lines the cancel route appends, one per request that acts.
CancelTags == {"cancel_by_user", "cancel_marked", "cancel_plain"}
\* How many requests have acted on a log.
CancelLines(log) == Cardinality({i \in 1..Len(log) : log[i].tag \in CancelTags})

\* C25 (Spec).  Cancel is idempotent: of the cancel requests made on a task
\* only the first acts, so the output of a task never holds more than one
\* line of the cancel route; and a request made on a task whose status is
\* terminal appends no line, and no downloader gets its flag set or its
\* process stopped while the record stays.
C25_CancelIdempotent ==
    /\ [](\A id \in Present : CancelLines(task_status[id].output) <= 1)
    /\ [][\A id \in Ids :
            (/\ id \in Present
             /\ id \in DOMAIN task_status'
             /\ IsTerminal(task_status[id].status)
             /\ creq[id] = "none")
            => /\ CancelLines(task_status'[id].output)
                     = CancelLines(task_status[id].output)
               /\ cancelled' = cancelled]_vars

\* C26 (SpecBenign).  A line in which an ignorable pattern occurs changes
\* nothing: the step that reads it leaves the critical flag as it was, also
\* when a critical signature occurs in the line too, and leaves the progress
\* of the task and the destination taken from the stream (the source of the
\* title) as they were.
C26_BenignLineChangesNothing ==
    [][\A w \in Workers :
          nread'[w] # nread[w]
          => /\ critical'[w] = critical[w]
             /\ downloaded_file'[w] = downloaded_file[w]
             /\ (cid[w] \in Present /\ cid[w] \in DOMAIN task_status')
                => task_status'[cid[w]].progress
                       = task_status[cid[w]].progress]_vars

\* A process that has not ended: running, or sent kill() and not yet gone.
Alive(p) == p \in {"running", "killed"}

\* C27 (Spec).  kill() is sent only to a process that was sent terminate()
\* and was still running when the wait of 5 s ended; when cancel_download
\* has returned True to the cancel route the process is not alive; and when
\* run_download has returned, on whatever path, the process it spawned is
\* not alive.
C27_TerminationProtocol ==
    /\ [][\A w \in Workers :
            (proc'[w] = "killed" /\ proc[w] # "killed")
            => (pc[w] = "ensure" /\ proc[w] = "running")]_vars
    /\ [][\A id \in Ids :
            (creq[id] = "none" /\ creq'[id] = "by_user")
            => ~Alive(proc'[active_processes[id]])]_vars
    /\ [](\A w \in Workers : pc[w] = "done" => ~Alive(proc[w]))

\* C28 (Spec).  When the wait of 30 s ends with the process of a present
\* task still running, the same step stores the terminal status error:
\* timeout and the worker goes on to its cleanup; the worker never comes
\* back to the wait; and a worker returns with a process that was still
\* running only from the step that has sent terminate() and waited, after
\* which the process has ended or was sent kill().  Whether cancellation was
\* requested before makes no difference.
C28_WaitTimeoutIsFatal ==
    /\ [][\A w \in Workers :
            (/\ pc[w] = "wait"
             /\ pc'[w] # "wait"
             /\ proc[w] = "running"
             /\ cid[w] \in Present)
            => /\ pc'[w] = "cleanup"
               /\ ~raised'[w]
               /\ cid[w] \in DOMAIN task_status'
               /\ task_status'[cid[w]].status = "error: timeout"
               /\ IsTerminal(task_status'[cid[w]].status)]_vars
    /\ [][\A w \in Workers :
            pc[w] \in FinalPcs \cup WritePcs \cup {"cleanup", "ensure", "done"}
            => pc'[w] # "wait"]_vars
    /\ [][\A w \in Workers :
            (pc[w] # "done" /\ pc'[w] = "done" /\ proc[w] = "running")
            => (pc[w] = "ensure" /\ proc'[w] # "running")]_vars

\* C28: a download whose cancellation had been requested timed out in the
\* wait; its worker has returned, the status is error: timeout and the
\* process was stopped by the cleanup.
C28_Witness ==
    \E w \in Workers :
        /\ pc[w] = "done"
        /\ ~raised[w]
        /\ cancelled[w]
        /\ proc[w] \in {"killed", "exited"}
        /\ cid[w] \in Present
        /\ task_status[cid[w]].status = "error: timeout"

\* The steps of run_download before Popen has returned.
BeforeSpawnPcs == {"init", "starting", "spawn"}

\* C29 (SpecDup).  A worker stores downloading only in the step in which
\* Popen succeeded, and once past that step it never comes back to the
\* writes of initializing and starting; and whenever a task has status
\* downloading, the worker that created it (the downloader registered with
\* the record at lines 686-689, as long as it is registered) holds a
\* spawned process.
C29_DownloadingMeansSpawned ==
    /\ [][\A w \in Workers :
            /\ (pc[w] = "spawn" /\ pc'[w] = "loop") => proc'[w] = "running"
            /\ pc[w] \notin BeforeSpawnPcs \cup {"idle"}
               => pc'[w] \notin BeforeSpawnPcs]_vars
    /\ [](\A id \in Present \cap DOMAIN active_processes :
            task_status[id].status = "downloading"
            => proc[active_processes[id]] # "none")

\* The record a worker has created is gone: in Spec only the remove
\* request, the retention sweep and clear-all delete a record.
Removed(w) == pc[w] \notin {"idle", "init"} /\ cid[w] \notin Present

\* C30 (Spec).  Once a remove request, a retention sweep or clear-all has
\* deleted the record of a task, no process of that task is alive, and its
\* worker spawns none afterwards: also when the record is deleted while
\* the worker is before Popen.
C30_RemovedTaskHasNoProcess ==
    /\ [](\A w \in Workers : Removed(w) => ~Alive(proc[w]))
    /\ [][\A w \in Workers :
            (proc[w] = "none" /\ proc'[w] # "none") => ~Removed(w)]_vars

\* The requests the validation of a submit route rejects: the URL is
\* missing, empty or invalid, or, for the vod route, the date is malformed
\* (every field that is present being a string).
RejectedByValidation ==
    {req \in Requests :
        /\ req.url # "nonstring"
        /\ req.variant = "vod" => req.date # "nonstring"
        /\ \/ req.url \in {"absent", "empty", "invalid"}
           \/ req.variant = "vod" /\ req.date = "malformed"}

\* C22 (SpecSubmit).  A request rejected by validation is answered 400, and
\* the step that answers 400 changes nothing else: the Store, the
\* active-handle index, the downloaders and their processes and the files
\* are as before, so no record was created, none was evicted and no
\* worker was started.
C22_RejectedSubmissionChangesNothing ==
    /\ [](\A req \in RejectedByValidation : submit_response(req) = 400)
    /\ [][(resp' # resp /\ resp' = 400)
          => /\ task_status' = task_status
             /\ active_processes' = active_processes
             /\ pc' = pc
             /\ proc' = proc
             /\ UNCHANGED <<mvars, pvars>>]_vars

\* C22: a request was answered 400 while the Store was above the cap and
\* held a terminal record, which is still there, and no worker has started.
C22_Witness ==
    /\ resp = 400
    /\ Cardinality(Present) > MAX_TASKS
    /\ \E id \in Present : IsTerminal(task_status[id].status)
    /\ \A w \in Workers : pc[w] = "idle"

\* What a status query or a listing shows of a task: get_status copies the
\* record as it is at that moment.
Observed(id) == task_status[id]

\* C31 (Spec).  No reader sees a task finished with a progress below 100:
\* in every state a record with status finished has progress 100.
C31_FinishedWithFullProgress ==
    \A id \in Present :
        Observed(id).status = "finished" => Observed(id).progress = 100

\* C32 (SpecCap).  When the capacity enforcement of a submission has
\* returned, the Store holds at most MAX_TASKS records or no terminal
\* record: it does not stop evicting while the Store is above the cap and
\* a terminal record is left.
C32_EvictsWhileOverCap ==
    [][\A w \in Workers :
          (pc[w] = "idle" /\ pc'[w] = "init")
          => \/ Cardinality(DOMAIN task_status') <= MAX_TASKS
             \/ TerminalIds(task_status') = {}]_vars

\* C32: a submission has evicted every terminal record of a Store above
\* the cap, and the Store is still above the cap.
C32_Witness ==
    /\ pc[First] = "init"
    /\ Cardinality(Present) > MAX_TASKS
    /\ TerminalIds(task_status) = {}
    /\ \E i \in 1..(MAX_TASKS + CapOver) :
          i \notin Present /\ \E j \in Present : j > i

\* C33 (Spec).  A record deleted under a worker that has created it does
\* not come back: no later step of that worker, which in Spec is the only
\* submission, puts a record under the id again, so the worker neither
\* re-creates it nor writes a field of it.
C33_DeletedRecordStaysDeleted ==
    [][\A w \in Workers : Removed(w) => cid[w] \notin DOMAIN task_status']_vars

\* C33: the record was deleted while its worker ran; the worker went on,
\* tried to write under the id, and has returned; the record is absent.
C33_Witness ==
    \E w \in Workers :
        /\ Removed(w)
        /\ pc[w] = "done"
        /\ raised[w]
        /\ proc[w] # "none"

====
